---- MODULE Spec2Model ----
(***************************************************************************)
(* A model of the versatiles tile-archive library: the in-memory value     *)
(* reader (ValueReaderBlob), the TilesReaderTrait contract with its        *)
(* default bbox tile stream, the VDL node property accessors and the       *)
(* container converters/readers behind get_converter / get_reader.         *)
(***************************************************************************)
EXTENDS Integers, Sequences, FiniteSets, TLC

VARIABLES
  blob,      \* ValueReaderBlob: the bytes held by the cursor (Cursor<Vec<u8>>)
  len,       \* ValueReaderBlob.len
  cursor,    \* ValueReaderBlob.cursor position
  sub,       \* the sub-reader last returned by get_sub_reader (or NoSub)
  reader,    \* a TilesReaderTrait object: [parameters, meta, tiles]
  coords,    \* TileStream: the Vec<TileCoord3> the stream was built from
  cur,       \* TileStream: how many of coords have been handed to the closure
  inflight,  \* TileStream: the closure calls started and not yet yielded
  mutex,     \* the futures::lock::Mutex around the reader: the closure calls holding it
  yielded,   \* the items next() has returned so far
  consumer,  \* the stream's consumer: none | idle | polling | ended | aborted
  node,      \* a VDLNode: [name, properties, children]
  reader1,   \* the source reader handed to convert_from (dummy::TileReader)
  fs,        \* the files on disk, by filename
  converter, \* the converter get_converter returned (or NoConverter)
  reader2,   \* the reader get_reader returned (or NoReader)
  drained,   \* how many tiles the draining converter has fetched from reader2
  pc,        \* the calling program: run | done | panicked
  wpc,       \* MockTilesWriter::write: idle | start | levels | returned
  levels,    \* MockTilesWriter::write: the levels iter_levels has yet to give
  requested, \* the bboxes get_bbox_tile_stream was asked for by the writer, in order
  out,       \* the bytes written to the DataWriterTrait handed to write_to_writer
  lookup,    \* TileComposerOperationLookup: the names of the operations it holds
  ops,       \* the operations new_tile_composer_operation has built, in order
  test_build, \* whether the crate was compiled with cfg(test)
  call       \* the last operation that ran: [op, arg, ret]

blobVars == <<blob, len, cursor, sub>>
streamVars == <<coords, cur, inflight, mutex, yielded, consumer>>
readerVars == <<reader, coords, cur, inflight, mutex, yielded, consumer>>
vdlVars == <<node>>
archiveVars == <<reader1, fs, converter, reader2, drained, pc>>
writerVars == <<wpc, levels, requested, out>>
composerVars == <<lookup, ops, test_build>>
vars == <<blob, len, cursor, sub, reader, coords, cur, inflight, mutex, yielded,
          consumer, node, reader1, fs, converter, reader2, drained, pc, wpc, levels,
          requested, out, lookup, ops, test_build, call>>
\* what the operations of one component leave alone
notBlobVars == <<readerVars, vdlVars, archiveVars, writerVars, composerVars>>
notReaderVars == <<blobVars, vdlVars, archiveVars, writerVars, composerVars>>
notVdlVars == <<blobVars, readerVars, archiveVars, writerVars, composerVars>>
notArchiveVars == <<blobVars, readerVars, vdlVars, writerVars, composerVars>>
notStreamVars == <<blobVars, vdlVars, archiveVars, composerVars>>
notComposerVars == <<blobVars, readerVars, vdlVars, archiveVars, writerVars>>

NoCall == [op |-> "none", arg |-> <<>>, ret |-> [ok |-> TRUE, val |-> <<>>]]
Ok(v) == [ok |-> TRUE, val |-> v]
Err(msg) == [ok |-> FALSE, val |-> msg]

RECURSIVE SeqsUpTo(_, _)
\* all sequences over S of length 0..n
SeqsUpTo(S, n) ==
  IF n = 0 THEN {<<>>}
  ELSE LET shorter == SeqsUpTo(S, n - 1)
       IN shorter \cup {Append(s, x) : s \in {t \in shorter : Len(t) = n - 1}, x \in S}

RECURSIVE Repeat(_, _)
Repeat(x, n) == IF n = 0 THEN <<>> ELSE Append(Repeat(x, n - 1), x)

(***************************************************************************)
(* ValueReaderBlob (src/src/types/io/value_reader_blob.rs)                 *)
(***************************************************************************)

\* length of the short blobs the cursor is tried on
MaxLen == 3
\* longest run of continuation bytes in the varint blobs
MaxCont == 11
\* u64 arithmetic is kept modulo a scaled-down word: positions and lengths
\* live in 0..W64-1 and `start + length` wraps as a release build's u64 does
W64 == 16
\* read_varint gives up once this many continuation bytes have been read
VarintMaxCont == 10

ByteVals == {2, 128, 172}
ShortBlobs == SeqsUpTo(ByteVals, MaxLen)
VarintBlobs ==
  {Repeat(128, k) \o tail : k \in (VarintMaxCont - 2)..MaxCont, tail \in {<<>>, <<1>>}}
TestBlobs == ShortBlobs \cup VarintBlobs
U64 == 0..(W64 - 1)

NoSub == [len |-> 0, pos |-> 0, data |-> <<>>, live |-> FALSE]

\* slice.get(start..end): None unless start <= end <= slice.len()
SliceGet(data, start, end) ==
  IF start <= end /\ end <= Len(data)
  THEN Ok(SubSeq(data, start + 1, end))
  ELSE Err("none")

\* ValueReaderBlob::new
new(b) == [blob |-> b, len |-> Len(b), cursor |-> 0]

\* fn set_position(&mut self, position: u64) -> Result<()>
set_position_fails_mut(position, length) == position > length
set_position_fails(position, length) == position >= length

set_position(position) ==
  /\ IF set_position_fails(position, len)
     THEN /\ call' = [op |-> "set_position", arg |-> position,
                      ret |-> Err("set position outside length")]
          /\ cursor' = cursor
     ELSE /\ cursor' = position
          /\ call' = [op |-> "set_position", arg |-> position, ret |-> Ok(<<>>)]
  /\ sub' = NoSub
  /\ UNCHANGED <<blob, len, notBlobVars>>

\* fn get_sub_reader(&mut self, length: u64): the cursor is moved to `end`
\* before the slice is taken
sub_reader_start_mut(start, length) == 0
sub_reader_start(start, length) == start

get_sub_reader(length) ==
  LET start == cursor
      end == (start + length) % W64
      slice == SliceGet(blob, sub_reader_start(start, length), end)
  IN /\ cursor' = end
     /\ IF slice.ok
        THEN /\ sub' = [len |-> length, pos |-> 0, data |-> slice.val, live |-> TRUE]
             /\ call' = [op |-> "get_sub_reader", arg |-> length, ret |-> Ok(start)]
        ELSE /\ sub' = NoSub
             /\ call' = [op |-> "get_sub_reader", arg |-> length,
                         ret |-> Err("out of bounds")]
     /\ UNCHANGED <<blob, len, notBlobVars>>

\* Cursor::read_exact of one byte: fails at or beyond the end, else returns
\* the byte under the cursor and advances by one
ReadByte(data, pos) ==
  IF pos >= Len(data) THEN Err("failed to fill whole buffer") ELSE Ok(data[pos + 1])

read_u8 ==
  LET r == ReadByte(blob, cursor)
  IN /\ call' = [op |-> "read_u8", arg |-> cursor, ret |-> r]
     /\ cursor' = IF r.ok THEN cursor + 1 ELSE cursor
     /\ sub' = NoSub
     /\ UNCHANGED <<blob, len, notBlobVars>>

\* read_u8 on the sub-reader (ValueReaderSlice): its own cursor over its slice
sub_read_u8 ==
  /\ sub.live
  /\ LET r == ReadByte(sub.data, sub.pos)
     IN /\ call' = [op |-> "sub_read_u8", arg |-> sub.pos, ret |-> r]
        /\ sub' = IF r.ok THEN [sub EXCEPT !.pos = @ + 1] ELSE sub
  /\ UNCHANGED <<blob, len, cursor, notBlobVars>>

\* the 7-bit group a byte contributes at `shift`, as the u64 keeps it:
\* (byte & 0x7F) << shift loses the bits shifted beyond bit 63
Group(byte, shift) == IF shift >= 63 THEN (byte % 128) % 2 ELSE byte % 128

VarintLimitMut == VarintMaxCont + 1
VarintLimit == VarintMaxCont

RECURSIVE VarintLoop(_, _, _, _)
\* unsigned LEB128: groups are collected least significant first;
\* the result carries the cursor position the loop stopped at
VarintLoop(data, pos, nCont, groups) ==
  LET r == ReadByte(data, pos)
  IN IF ~r.ok THEN [ok |-> FALSE, val |-> r.val, pos |-> pos]
     ELSE LET g == Append(groups, Group(r.val, 7 * nCont))
          IN IF r.val < 128 THEN [ok |-> TRUE, val |-> g, pos |-> pos + 1]
             ELSE IF nCont + 1 >= VarintLimit
                  THEN [ok |-> FALSE, val |-> "Varint too long", pos |-> pos + 1]
                  ELSE VarintLoop(data, pos + 1, nCont + 1, g)

read_varint ==
  LET r == VarintLoop(blob, cursor, 0, <<>>)
  IN /\ call' = [op |-> "read_varint", arg |-> cursor,
                 ret |-> [ok |-> r.ok, val |-> r.val]]
     /\ cursor' = r.pos
     /\ sub' = NoSub
     /\ UNCHANGED <<blob, len, notBlobVars>>

RECURSIVE VarintValue(_)
\* the number a sequence of 7-bit groups stands for (least significant first)
VarintValue(groups) ==
  IF groups = <<>> THEN 0 ELSE Head(groups) + 128 * VarintValue(Tail(groups))

(***************************************************************************)
(* TilesReaderTrait and its default bbox tile stream                       *)
(* (src/versatiles_core/src/types/tiles_reader.rs)                         *)
(***************************************************************************)

\* the stream's bounded parallelism (32 by default; scaled down here)
P == 2
\* the zoom level of the bbox the stream is asked for
TestZoom == 1
\* TestReader::new_dummy covers the full pyramid down to this level
DummyMaxZoom == 3

RECURSIVE Pow2(_)
Pow2(n) == IF n = 0 THEN 1 ELSE 2 * Pow2(n - 1)

None == [some |-> FALSE]
Some(v) == [some |-> TRUE, v |-> v]

TileCompressions == {"Uncompressed", "Gzip", "Brotli"}

\* TileCoord3::new(z, x, y)
Coord(z, x, y) == [z |-> z, x |-> x, y |-> y]
LevelCoords(z) == {Coord(z, x, y) : x \in 0..(Pow2(z) - 1), y \in 0..(Pow2(z) - 1)}

\* TileBBox::new(level, x_min, y_min, x_max, y_max)
BBox(z, x0, y0, x1, y1) == [level |-> z, x_min |-> x0, y_min |-> y0, x_max |-> x1, y_max |-> y1]
BBoxes(z) ==
  {BBox(z, x0, y0, x1, y1) : x0 \in 0..(Pow2(z) - 1), y0 \in 0..(Pow2(z) - 1),
                             x1 \in 0..(Pow2(z) - 1), y1 \in 0..(Pow2(z) - 1)}
TestBBoxes == {b \in BBoxes(TestZoom) : b.x_min <= b.x_max /\ b.y_min <= b.y_max}

\* TileBBoxPyramid::new_full(max_zoom)
new_full(maxZoom) ==
  [z \in 0..maxZoom |-> BBox(z, 0, 0, Pow2(z) - 1, Pow2(z) - 1)]

\* TileBBox::iter_coords: row-major, y outer and x inner
iter_coords(bbox) ==
  LET w == bbox.x_max - bbox.x_min + 1
      h == bbox.y_max - bbox.y_min + 1
  IN [i \in 1..(w * h) |->
        Coord(bbox.level, bbox.x_min + ((i - 1) % w), bbox.y_min + ((i - 1) \div w))]

\* what a reader's get_tile_data answers for one coord
TileBlob(coord) == <<"test tile data", coord>>
TileOutcomes(coord) == {Ok(Some(TileBlob(coord))), Ok(None), Err("tile read failed")}

\* TestReader::new_dummy, with the tile source left open
new_dummy(tiles) ==
  [parameters |-> [bbox_pyramid |-> new_full(DummyMaxZoom),
                   tile_compression |-> "Gzip",
                   tile_format |-> "PBF"],
   meta |-> "test metadata",
   tiles |-> tiles]

TileSources ==
  {t \in [LevelCoords(TestZoom) -> UNION {TileOutcomes(c) : c \in LevelCoords(TestZoom)}] :
     \A c \in LevelCoords(TestZoom) : t[c] \in TileOutcomes(c)}

Free == {}
NoStream ==
  /\ coords = <<>>
  /\ cur = 0
  /\ inflight = <<>>
  /\ mutex = Free
  /\ yielded = <<>>
  /\ consumer = "none"

get_name(r) == "dummy"
get_container_name(r) == "test container name"
get_parameters(r) == r.parameters
get_meta(r) == Ok(Some(r.meta))
get_tile_data(r, coord) == r.tiles[coord]

\* fn override_compression(&mut self, tile_compression: TileCompression)
override_compression_mut(r, c) ==
  [r EXCEPT !.parameters.tile_compression = c, !.parameters.tile_format = "BIN"]
override_compression(r, c) == [r EXCEPT !.parameters.tile_compression = c]

\* a direct call on the reader by the code that owns it (no stream borrowed)
ReaderCall(op, arg, ret) ==
  /\ consumer = "none"
  /\ call' = [op |-> op, arg |-> arg, ret |-> ret]
  /\ UNCHANGED <<streamVars, notReaderVars>>

call_get_name == ReaderCall("get_name", <<>>, get_name(reader)) /\ UNCHANGED reader
call_get_container_name ==
  ReaderCall("get_container_name", <<>>, get_container_name(reader)) /\ UNCHANGED reader
call_get_parameters ==
  ReaderCall("get_parameters", <<>>, get_parameters(reader)) /\ UNCHANGED reader
call_get_meta == ReaderCall("get_meta", <<>>, get_meta(reader)) /\ UNCHANGED reader
call_get_tile_data(coord) ==
  ReaderCall("get_tile_data", coord, get_tile_data(reader, coord)) /\ UNCHANGED reader
call_override_compression(c) ==
  /\ ReaderCall("override_compression", c, <<>>)
  /\ reader' = override_compression(reader, c)

\* async fn get_bbox_tile_stream(&self, bbox): collects the coords and builds
\* the stream; nothing is fetched before the stream is polled
call_get_bbox_tile_stream(bbox) ==
  /\ consumer = "none"
  /\ coords' = iter_coords(bbox)
  /\ cur' = 0
  /\ inflight' = <<>>
  /\ mutex' = Free
  /\ yielded' = <<>>
  /\ consumer' = "idle"
  /\ call' = [op |-> "get_bbox_tile_stream", arg |-> bbox, ret |-> <<>>]
  /\ UNCHANGED <<reader, notReaderVars>>

\* the closure's tail: .map(|blob_option| blob_option.map(|blob| (coord, blob)))
\*                     .unwrap_or(None)
ClosureResultDropMut(result, coord) == None
ClosureResultUnwrapMut(result, coord) ==
  IF result.ok
  THEN IF result.val.some THEN Some(<<coord, result.val.v>>) ELSE None
  ELSE [some |-> FALSE, panic |-> TRUE]
ClosureResult(result, coord) ==
  IF result.ok
  THEN IF result.val.some THEN Some(<<coord, result.val.v>>) ELSE None
  ELSE None

\* the stream may start another closure call while fewer than P are in progress
SpawnAllowedMut(n) == n <= P
SpawnAllowed(n) == n < P

InFlight == DOMAIN inflight
Running == {c \in InFlight : inflight[c].pc \in {"lock", "call"}}
Put(f, k, v) == [x \in DOMAIN f \cup {k} |-> IF x = k THEN v ELSE f[x]]
Drop(f, k) == [x \in DOMAIN f \ {k} |-> f[x]]
Panicked(res) == "panic" \in DOMAIN res

\* the consumer calls stream.next()
stream_next ==
  /\ consumer = "idle"
  /\ consumer' = "polling"
  /\ UNCHANGED <<reader, coords, cur, inflight, mutex, yielded, call, notReaderVars>>

\* a polled stream hands the next coord to the closure
stream_spawn ==
  /\ consumer = "polling"
  /\ cur < Len(coords)
  /\ SpawnAllowed(Cardinality(InFlight))
  /\ cur' = cur + 1
  /\ inflight' = Put(inflight, coords[cur + 1], [pc |-> "lock", res |-> None])
  /\ UNCHANGED <<reader, coords, mutex, yielded, consumer, call, notReaderVars>>

\* mutex.lock().await resolves only while no guard is alive
LockAvailableMut(m) == TRUE
LockAvailable(m) == m = Free

\* mutex.lock().await resolves: the closure call holds the reader
closure_lock(c) ==
  /\ c \in InFlight
  /\ inflight[c].pc = "lock"
  /\ LockAvailable(mutex)
  /\ mutex' = {c}
  /\ inflight' = [inflight EXCEPT ![c].pc = "call"]
  /\ UNCHANGED <<reader, coords, cur, yielded, consumer, call, notReaderVars>>

\* get_tile_data(&coord).await resolves; the result is mapped and the guard
\* is dropped at the end of the closure's expression
closure_get_tile_data(c) ==
  /\ c \in InFlight
  /\ inflight[c].pc = "call"
  /\ c \in mutex
  /\ inflight' = [inflight EXCEPT ![c] =
                    [pc |-> "done", res |-> ClosureResult(get_tile_data(reader, c), c)]]
  /\ mutex' = Free
  /\ UNCHANGED <<reader, coords, cur, yielded, consumer, call, notReaderVars>>

\* a finished closure call leaves the stream: Some(item) is returned by
\* next(), None is filtered out and the poll goes on
stream_yield(c) ==
  /\ consumer = "polling"
  /\ c \in InFlight
  /\ inflight[c].pc = "done"
  /\ inflight' = Drop(inflight, c)
  /\ LET res == inflight[c].res
     IN IF Panicked(res)
        THEN consumer' = "aborted" /\ yielded' = yielded
        ELSE IF res.some
             THEN consumer' = "idle" /\ yielded' = Append(yielded, res.v)
             ELSE consumer' = "polling" /\ yielded' = yielded
  /\ UNCHANGED <<reader, coords, cur, mutex, call, notReaderVars>>

\* next() returns None: every coord was handed out and every call has left
stream_end ==
  /\ consumer = "polling"
  /\ cur = Len(coords)
  /\ InFlight = {}
  /\ consumer' = "ended"
  /\ UNCHANGED <<reader, coords, cur, inflight, mutex, yielded, call, notReaderVars>>

\* the exhausted stream is dropped
stream_drop ==
  /\ consumer = "ended"
  /\ coords' = <<>>
  /\ cur' = 0
  /\ inflight' = <<>>
  /\ mutex' = Free
  /\ yielded' = <<>>
  /\ consumer' = "none"
  /\ UNCHANGED <<reader, call, notReaderVars>>

(***************************************************************************)
(* VDLNode property accessors (src/versatiles/src/utils/vdl/vdl_node.rs)   *)
(***************************************************************************)

\* the longest property list a node is given
MaxEntries == 2

Fields == {"id_field", "layer"}
Values == {"a", "b"}
PropertyLists == SeqsUpTo(Values, MaxEntries)
\* HashMap<String, Vec<String>>: any subset of the fields, each with a list
PropertyMaps == UNION {[keys -> PropertyLists] : keys \in SUBSET Fields}

\* impl From<&str> for VDLNode, with the property map filled in
VDLNode(name, properties) == [name |-> name, properties |-> properties, children |-> <<>>]

\* the texts of the errors, field name in the middle
MsgExactlyOne(field) == <<"field '", field, "' must have exactly one entry">>
MsgDoesNotExist(field) == <<"field '", field, "' does not exist">>

\* ensure!(list.len() == 1, ..)
ExactlyOneMut(list) == Len(list) >= 1
ExactlyOne(list) == Len(list) = 1

\* fn get_property0(&self, field: &str) -> Result<Option<&String>>
get_property0(n, field) ==
  IF field \notin DOMAIN n.properties THEN Ok(None)
  ELSE LET list == n.properties[field]
       IN IF ExactlyOne(list) THEN Ok(Some(list[1])) ELSE Err(MsgExactlyOne(field))

\* fn get_property1(&self, field: &str) -> Result<&String>
get_property1(n, field) ==
  LET r == get_property0(n, field)
  IN IF ~r.ok THEN r
     ELSE IF r.val.some THEN Ok(r.val.v) ELSE Err(MsgDoesNotExist(field))

\* pub fn get_property_string0(&self, field: &str) -> Result<Option<String>>
get_property_string0(n, field) == get_property0(n, field)

\* pub fn get_property_string1(&self, field: &str) -> Result<String>
get_property_string1(n, field) == get_property1(n, field)

\* fn get_property_vec(&self, field: &str, min_size: usize) -> Result<&Vec<String>>
MsgNotFound(field) == <<"field '", field, "' not found">>
MsgAtLeast(field, min_size) == <<"field '", field, "' must have at least ", min_size, " entries">>
get_property_vec(n, field, min_size) ==
  IF field \notin DOMAIN n.properties THEN Err(MsgNotFound(field))
  ELSE LET list == n.properties[field]
       IN IF Len(list) >= min_size THEN Ok(list) ELSE Err(MsgAtLeast(field, min_size))

call_get_property_vec(field, min_size) ==
  /\ call' = [op |-> "get_property_vec", arg |-> [field |-> field, min_size |-> min_size],
              ret |-> get_property_vec(node, field, min_size)]
  /\ UNCHANGED <<node, notVdlVars>>

call_get_property_string0(field) ==
  /\ call' = [op |-> "get_property_string0", arg |-> field,
              ret |-> get_property_string0(node, field)]
  /\ UNCHANGED <<node, notVdlVars>>

call_get_property_string1(field) ==
  /\ call' = [op |-> "get_property_string1", arg |-> field,
              ret |-> get_property_string1(node, field)]
  /\ UNCHANGED <<node, notVdlVars>>

(***************************************************************************)
(* Containers: get_converter / get_reader                                  *)
(* (src/src/lib/versatiles_container/src/lib.rs), the mbtiles converter    *)
(* (.../mbtiles/converter.rs) and the versatiles and tar formats           *)
(***************************************************************************)

\* the deepest zoom level a source reader is built with
MaxZoom == 1
\* the versatiles header occupies the first 62 bytes of the file
HeaderSize == 62
\* a block is a 256 x 256 tile region of one zoom level
BlockSize == 256
\* a block directory entry has eleven fields
DirEntryLen == 11

VtcMagic == "versatiles_v02"
Min(S) == CHOOSE x \in S : \A y \in S : x <= y
Max(S) == CHOOSE x \in S : \A y \in S : x >= y
Panic(msg) == [ok |-> FALSE, val |-> msg, panic |-> TRUE]

\* file names, split at '.'
TestFiles == {<<"temp", "tar">>, <<"temp", "versatiles">>, <<"temp", "mbtiles">>,
              <<"filename", "txt">>}
\* filename.split('.').last() / path.extension()
Extension(filename) == filename[Len(filename)]

NoFile == [exists |-> FALSE]
NoConverter == [kind |-> "none"]
NoReader == [open |-> FALSE]

\* ---- blobs: a leading byte tells the encoding --------------------------

FormatMagic(fmt) == CASE fmt = "PNG" -> 137 [] fmt = "JPG" -> 255 [] fmt = "PBF" -> 26
CompressionMagic(comp) == CASE comp = "Gzip" -> 31 [] comp = "Brotli" -> 206

\* compress(blob, target)
Compress(bytes, comp) ==
  IF comp = "Uncompressed" THEN bytes ELSE <<CompressionMagic(comp)>> \o bytes

\* decompress(blob, source): Corrupt when the bytes are not of that compression
Decompress(bytes, comp) ==
  IF comp = "Uncompressed" THEN Ok(bytes)
  ELSE IF bytes # <<>> /\ Head(bytes) = CompressionMagic(comp)
       THEN Ok(Tail(bytes))
       ELSE Err("Corrupt")

\* re-encoding a decoded tile in another tile format
Reformat(bytes, fmt) == <<FormatMagic(fmt)>> \o Tail(bytes)

\* the tile recompressor of a converter: bytes pass through when the source
\* is already in the target format and compression, and are transcoded otherwise
Recompress(bytes, src, cfg) ==
  IF src.tile_format = cfg.tile_format /\ src.tile_compression = cfg.tile_compression
     /\ ~cfg.force_recompress
  THEN bytes
  ELSE LET plain == Decompress(bytes, src.tile_compression).val
           image == IF src.tile_format = cfg.tile_format THEN plain
                    ELSE Reformat(plain, cfg.tile_format)
       IN Compress(image, cfg.tile_compression)

\* ---- the source reader: dummy::TileReader::new_dummy(profile, max_zoom) --

ReaderProfiles == {"PngFast", "PbfFast"}
ProfileFormat(profile) == IF profile = "PngFast" THEN "PNG" ELSE "PBF"
ProfileCompression(profile) == IF profile = "PngFast" THEN "Uncompressed" ELSE "Gzip"

dummy_new_dummy(profile, max_zoom_level) ==
  [profile |-> profile,
   parameters |-> [bbox_pyramid |-> new_full(max_zoom_level),
                   tile_format |-> ProfileFormat(profile),
                   tile_compression |-> ProfileCompression(profile)]]

\* the synthetic tile of a coord: the format's bytes around a per-coord payload
dummy_tile(r, coord) ==
  Compress(<<FormatMagic(r.parameters.tile_format),
             1 + coord.x + Pow2(coord.z) * coord.y, coord.z>>,
           r.parameters.tile_compression)

dummy_get_tile_data(r, coord) ==
  IF coord.z \in DOMAIN r.parameters.bbox_pyramid
  THEN Ok(Some(dummy_tile(r, coord)))
  ELSE Ok(None)

dummy_get_meta(r) == Ok(Some(<<123, FormatMagic(r.parameters.tile_format), 125>>))

\* the coords of a bbox pyramid: levels ascending, each level row-major
RECURSIVE PyramidCoordsFrom(_, _)
PyramidCoordsFrom(pyramid, z) ==
  IF z \notin DOMAIN pyramid THEN <<>>
  ELSE iter_coords(pyramid[z]) \o PyramidCoordsFrom(pyramid, z + 1)
PyramidCoords(pyramid) ==
  IF DOMAIN pyramid = {} THEN <<>> ELSE PyramidCoordsFrom(pyramid, Min(DOMAIN pyramid))

\* TileConverterConfig::new(Some(tile_format), Some(compression), new_full(), false)
TileConverterConfig(fmt, comp) ==
  [tile_format |-> fmt, tile_compression |-> comp, force_recompress |-> FALSE]
\* the formats a source format can be converted to
TargetFormats(fmt) == IF fmt \in {"PNG", "JPG"} THEN {"PNG", "JPG"} ELSE {fmt}
TargetCompressions == {"Uncompressed", "Gzip"}
TestConfigs(r) ==
  {TileConverterConfig(f, c) : f \in TargetFormats(r.parameters.tile_format),
                               c \in TargetCompressions}

\* ---- the versatiles container -------------------------------------------

\* the blocks a level's bbox touches, row-major (block_y outer)
BlockList(bbox) ==
  LET bx0 == bbox.x_min \div BlockSize
      by0 == bbox.y_min \div BlockSize
      nx == bbox.x_max \div BlockSize - bx0 + 1
      ny == bbox.y_max \div BlockSize - by0 + 1
  IN [i \in 1..(nx * ny) |-> <<bx0 + ((i - 1) % nx), by0 + ((i - 1) \div nx)>>]

\* the part of a level's bbox that lies in block (bx, by)
BlockBBox(bbox, bx, by) ==
  BBox(bbox.level,
       Max({bbox.x_min, bx * BlockSize}), Max({bbox.y_min, by * BlockSize}),
       Min({bbox.x_max, bx * BlockSize + BlockSize - 1}),
       Min({bbox.y_max, by * BlockSize + BlockSize - 1}))

RECURSIVE VtcWriteTiles(_, _, _, _, _, _)
\* the tiles of one block, in coord order: each blob is appended at the
\* current file position and its (offset_delta, length) goes to the index;
\* an absent tile gets length 0
VtcWriteTiles(r, cfg, cs, i, w, start) ==
  IF i > Len(cs) THEN w
  ELSE LET t == dummy_get_tile_data(r, cs[i])
       IN IF t.ok /\ t.val.some
          THEN LET b == Recompress(t.val.v, r.parameters, cfg)
                   offset == HeaderSize + Len(w.data)
               IN VtcWriteTiles(r, cfg, cs, i + 1,
                                [data |-> w.data \o b,
                                 index |-> w.index \o <<offset - start, Len(b)>>],
                                start)
          ELSE VtcWriteTiles(r, cfg, cs, i + 1,
                             [data |-> w.data, index |-> w.index \o <<0, 0>>], start)

\* one block: its tiles, then its compressed tile index, then its directory entry
VtcWriteBlock(r, cfg, w, bbox, bx, by) ==
  LET bb == BlockBBox(bbox, bx, by)
      start == HeaderSize + Len(w.data)
      t == VtcWriteTiles(r, cfg, iter_coords(bb), 1, [data |-> w.data, index |-> <<>>], start)
      tilesEnd == HeaderSize + Len(t.data)
      idx == Compress(t.index, cfg.tile_compression)
      entry == <<bbox.level, bx, by,
                 bb.y_min % BlockSize, bb.y_max % BlockSize,
                 bb.x_min % BlockSize, bb.x_max % BlockSize,
                 start, tilesEnd - start, tilesEnd, Len(idx)>>
  IN [data |-> t.data \o idx, dir |-> w.dir \o entry]

RECURSIVE VtcWriteBlocks(_, _, _, _, _, _)
VtcWriteBlocks(r, cfg, w, bbox, blocks, i) ==
  IF i > Len(blocks) THEN w
  ELSE VtcWriteBlocks(r, cfg, VtcWriteBlock(r, cfg, w, bbox, blocks[i][1], blocks[i][2]),
                      bbox, blocks, i + 1)

RECURSIVE VtcWriteLevels(_, _, _, _)
VtcWriteLevels(r, cfg, w, z) ==
  IF z \notin DOMAIN r.parameters.bbox_pyramid THEN w
  ELSE LET bbox == r.parameters.bbox_pyramid[z]
       IN VtcWriteLevels(r, cfg, VtcWriteBlocks(r, cfg, w, bbox, BlockList(bbox), 1), z + 1)

\* versatiles::TileConverter::convert_from: header, metadata, blocks, directory
vtc_convert_from(r, cfg) ==
  LET comp == cfg.tile_compression
      meta == Compress(dummy_get_meta(r).val.v, comp)
      w == VtcWriteLevels(r, cfg, [data |-> meta, dir |-> <<>>], 0)
      dir == Compress(w.dir, comp)
  IN [exists |-> TRUE,
      header |-> [magic |-> VtcMagic,
                  tile_format |-> cfg.tile_format,
                  tile_compression |-> comp,
                  meta_range |-> [offset |-> HeaderSize, length |-> Len(meta)],
                  blocks_range |-> [offset |-> HeaderSize + Len(w.data), length |-> Len(dir)]],
      data |-> w.data \o dir]

\* the bytes [offset, offset + length) of the file
ReadRange(file, offset, length) ==
  SubSeq(file.data, offset - HeaderSize + 1, offset - HeaderSize + length)

DirEntries(dir) ==
  {SubSeq(dir, DirEntryLen * (k - 1) + 1, DirEntryLen * k) : k \in 1..(Len(dir) \div DirEntryLen)}

\* the bbox pyramid the block directory declares
VtcPyramid(entries) ==
  [z \in {e[1] : e \in entries} |->
     LET es == {e \in entries : e[1] = z}
     IN BBox(z, Min({e[2] * BlockSize + e[6] : e \in es}),
                Min({e[3] * BlockSize + e[4] : e \in es}),
                Max({e[2] * BlockSize + e[7] : e \in es}),
                Max({e[3] * BlockSize + e[5] : e \in es}))]

\* versatiles::TileReader::new: validate the header, read the block directory
vtc_open(filename, file) ==
  IF ~file.exists THEN Err("No such file")
  ELSE IF "header" \notin DOMAIN file THEN Err("Corrupt")
  ELSE IF file.header.magic # VtcMagic THEN Err("Corrupt")
  ELSE LET h == file.header
           dir == Decompress(ReadRange(file, h.blocks_range.offset, h.blocks_range.length),
                             h.tile_compression)
       IN IF ~dir.ok THEN dir
          ELSE Ok([open |-> TRUE, kind |-> "versatiles", name |-> filename,
                   parameters |-> [bbox_pyramid |-> VtcPyramid(DirEntries(dir.val)),
                                   tile_format |-> h.tile_format,
                                   tile_compression |-> h.tile_compression],
                   index |-> DirEntries(dir.val)])

\* versatiles::TileReader::get_tile_data: block, tile index, byte range
vtc_get_tile_data(rd, file, coord) ==
  LET es == {e \in rd.index : /\ e[1] = coord.z
                              /\ e[2] = coord.x \div BlockSize
                              /\ e[3] = coord.y \div BlockSize}
  IN IF es = {} THEN Ok(None)
     ELSE LET e == CHOOSE e \in es : TRUE
              lx == coord.x % BlockSize
              ly == coord.y % BlockSize
          IN IF lx < e[6] \/ lx > e[7] \/ ly < e[4] \/ ly > e[5] THEN Ok(None)
             ELSE LET idx == Decompress(ReadRange(file, e[10], e[11]),
                                        rd.parameters.tile_compression)
                      slot == (ly - e[4]) * (e[7] - e[6] + 1) + (lx - e[6])
                  IN IF ~idx.ok THEN idx
                     ELSE IF idx.val[2 * slot + 2] = 0 THEN Ok(None)
                     ELSE Ok(Some(ReadRange(file, e[8] + idx.val[2 * slot + 1],
                                            idx.val[2 * slot + 2])))

\* versatiles::TileReader::get_meta: always uncompressed
vtc_get_meta(rd, file) ==
  LET h == file.header
  IN IF h.meta_range.length = 0 THEN Ok(None)
     ELSE LET m == Decompress(ReadRange(file, h.meta_range.offset, h.meta_range.length),
                              h.tile_compression)
          IN IF m.ok THEN Ok(Some(m.val)) ELSE m

\* ---- the tar container ----------------------------------------------------

\* the path of a tile is {z}/{x}/{y}.{ext}[.{suffix}]; meta.json[.{suffix}]
FormatExtension(fmt) == CASE fmt = "PNG" -> "png" [] fmt = "JPG" -> "jpg" [] fmt = "PBF" -> "pbf"
ExtensionFormat(ext) == CASE ext = "png" -> "PNG" [] ext = "jpg" -> "JPG" [] ext = "pbf" -> "PBF"
CompressionSuffix(comp) ==
  CASE comp = "Uncompressed" -> "" [] comp = "Gzip" -> "gz" [] comp = "Brotli" -> "br"
SuffixCompression(suffix) ==
  CASE suffix = "" -> "Uncompressed" [] suffix = "gz" -> "Gzip" [] suffix = "br" -> "Brotli"

TilePath(coord, fmt, comp) ==
  [kind |-> "tile", z |-> coord.z, x |-> coord.x, y |-> coord.y,
   ext |-> FormatExtension(fmt), suffix |-> CompressionSuffix(comp)]
MetaPath(comp) == [kind |-> "meta", ext |-> "json", suffix |-> CompressionSuffix(comp)]

RECURSIVE TarWriteTiles(_, _, _, _, _)
TarWriteTiles(r, cfg, cs, i, entries) ==
  IF i > Len(cs) THEN entries
  ELSE LET t == dummy_get_tile_data(r, cs[i])
       IN IF t.ok /\ t.val.some
          THEN TarWriteTiles(r, cfg, cs, i + 1,
                 Append(entries,
                        [path |-> TilePath(cs[i], cfg.tile_format, cfg.tile_compression),
                         data |-> Recompress(t.val.v, r.parameters, cfg)]))
          ELSE TarWriteTiles(r, cfg, cs, i + 1, entries)

\* tar::TileConverter::convert_from: the metadata entry first, then the tiles
\* in bbox-pyramid order
tar_convert_from(r, cfg) ==
  LET meta == [path |-> MetaPath(cfg.tile_compression),
               data |-> Compress(dummy_get_meta(r).val.v, cfg.tile_compression)]
  IN [exists |-> TRUE,
      entries |-> TarWriteTiles(r, cfg, PyramidCoords(r.parameters.bbox_pyramid), 1, <<meta>>)]

TarEntries(file) == {file.entries[i] : i \in 1..Len(file.entries)}
TarTiles(file) == {e \in TarEntries(file) : e.path.kind = "tile"}

\* tar::TileReader::new: one scan of the entries builds the tile map
tar_open(filename, file) ==
  IF ~file.exists THEN Err("No such file")
  ELSE IF "entries" \notin DOMAIN file THEN Err("Corrupt")
  ELSE IF TarTiles(file) = {} THEN Err("no tiles found")
  ELSE LET tiles == TarTiles(file)
           first == CHOOSE e \in tiles : TRUE
       IN Ok([open |-> TRUE, kind |-> "tar", name |-> filename,
              parameters |->
                [bbox_pyramid |->
                   [z \in {e.path.z : e \in tiles} |->
                      LET es == {e \in tiles : e.path.z = z}
                      IN BBox(z, Min({e.path.x : e \in es}), Min({e.path.y : e \in es}),
                                 Max({e.path.x : e \in es}), Max({e.path.y : e \in es}))],
                 tile_format |-> ExtensionFormat(first.path.ext),
                 tile_compression |-> SuffixCompression(first.path.suffix)],
              index |-> {}])

tar_get_tile_data(rd, file, coord) ==
  LET es == {e \in TarTiles(file) :
               e.path.z = coord.z /\ e.path.x = coord.x /\ e.path.y = coord.y}
  IN IF es = {} THEN Ok(None) ELSE Ok(Some((CHOOSE e \in es : TRUE).data))

tar_get_meta(rd, file) ==
  LET es == {e \in TarEntries(file) : e.path.kind = "meta"}
  IN IF es = {} THEN Ok(None)
     ELSE LET e == CHOOSE e \in es : TRUE
              m == Decompress(e.data, SuffixCompression(e.path.suffix))
          IN IF m.ok THEN Ok(Some(m.val)) ELSE m

\* ---- the mbtiles container ------------------------------------------------

\* mbtiles::TileConverter::new / convert_from
mbtiles_new_mut(filename, config) ==
  Ok([kind |-> "mbtiles", path |-> filename, config |-> config])
mbtiles_new(filename, config) == Panic("conversion to mbtiles is not supported")
mbtiles_convert_from(r) == Panic("conversion to mbtiles is not supported")

\* mbtiles::TileReader::new: no converter writes a database, so none opens
mbtiles_open(filename, file) ==
  IF ~file.exists THEN Err("No such file") ELSE Err("Corrupt")

\* ---- get_converter / get_reader -------------------------------------------

\* match extension { "versatiles" => .., "tar" => .., _ => panic! }
ConverterForMut(extension) ==
  CASE extension = "versatiles" -> "versatiles"
    [] extension = "tar" -> "versatiles"
    [] OTHER -> "unknown"
ConverterFor(extension) ==
  CASE extension = "versatiles" -> "versatiles"
    [] extension = "tar" -> "tar"
    [] OTHER -> "unknown"

\* pub fn get_converter(filename: &str, config: TileConverterConfig) -> TileConverterBox
get_converter(filename, config) ==
  LET kind == ConverterFor(Extension(filename))
  IN IF kind = "unknown"
     THEN Panic(<<"extension '", Extension(filename), "' unknown">>)
     ELSE Ok([kind |-> kind, path |-> filename, config |-> config])

\* pub async fn get_reader(filename: &str) -> Result<TileReaderBox>
get_reader(filename, file) ==
  LET extension == Extension(filename)
  IN CASE extension = "mbtiles" -> mbtiles_open(filename, file)
       [] extension = "tar" -> tar_open(filename, file)
       [] extension = "versatiles" -> vtc_open(filename, file)
       [] OTHER -> Panic(<<"extension '", extension, "' unknown">>)

\* the reader get_reader returned, read through its container format
reader2_get_tile_data(rd, files, coord) ==
  IF rd.kind = "versatiles" THEN vtc_get_tile_data(rd, files[rd.name], coord)
  ELSE tar_get_tile_data(rd, files[rd.name], coord)
reader2_get_meta(rd, files) ==
  IF rd.kind = "versatiles" THEN vtc_get_meta(rd, files[rd.name])
  ELSE tar_get_meta(rd, files[rd.name])

Fresh == pc = "run" /\ converter = NoConverter /\ reader2 = NoReader

\* get_converter(filename, config)
call_get_converter(filename, config) ==
  /\ Fresh
  /\ LET r == get_converter(filename, config)
     IN /\ call' = [op |-> "get_converter", arg |-> filename, ret |-> [ok |-> r.ok]]
        /\ converter' = IF r.ok THEN r.val ELSE converter
        /\ pc' = IF r.ok THEN pc ELSE "panicked"
  /\ UNCHANGED <<reader1, fs, reader2, drained, notArchiveVars>>

\* mbtiles::TileConverter::new(filename, config)
call_mbtiles_new(filename, config) ==
  /\ Fresh
  /\ LET r == mbtiles_new(filename, config)
     IN /\ call' = [op |-> "mbtiles_new", arg |-> filename,
                    ret |-> [ok |-> r.ok, val |-> IF r.ok THEN "" ELSE r.val]]
        /\ converter' = IF r.ok THEN r.val ELSE converter
        /\ pc' = IF r.ok THEN pc ELSE "panicked"
  /\ UNCHANGED <<reader1, fs, reader2, drained, notArchiveVars>>

\* (TileConverter {}).convert_from(&mut reader)
call_mbtiles_convert_from ==
  /\ Fresh
  /\ LET r == mbtiles_convert_from(reader1)
     IN /\ call' = [op |-> "mbtiles_convert_from", arg |-> <<>>,
                    ret |-> [ok |-> r.ok, val |-> r.val]]
        /\ pc' = IF r.ok THEN pc ELSE "panicked"
  /\ UNCHANGED <<reader1, fs, converter, reader2, drained, notArchiveVars>>

\* converter.convert_from(&mut reader1): the container file is written
call_convert_from ==
  /\ pc = "run"
  /\ converter # NoConverter
  /\ reader2 = NoReader
  /\ ~fs[converter.path].exists
  /\ IF converter.kind = "mbtiles"
     THEN /\ call' = [op |-> "mbtiles_convert_from", arg |-> converter.path,
                      ret |-> [ok |-> FALSE, val |-> mbtiles_convert_from(reader1).val]]
          /\ pc' = "panicked"
          /\ fs' = fs
     ELSE /\ call' = [op |-> "convert_from", arg |-> converter.path, ret |-> [ok |-> TRUE]]
          /\ pc' = pc
          /\ fs' = [fs EXCEPT ![converter.path] =
                      IF converter.kind = "versatiles"
                      THEN vtc_convert_from(reader1, converter.config)
                      ELSE tar_convert_from(reader1, converter.config)]
  /\ UNCHANGED <<reader1, converter, reader2, drained, notArchiveVars>>

\* get_reader(filename).await.unwrap()
call_get_reader(filename) ==
  /\ pc = "run"
  /\ reader2 = NoReader
  /\ LET r == get_reader(filename, fs[filename])
     IN /\ call' = [op |-> "get_reader", arg |-> filename, ret |-> [ok |-> r.ok]]
        /\ reader2' = IF r.ok THEN r.val ELSE reader2
        /\ pc' = IF r.ok THEN pc ELSE "panicked"
  /\ UNCHANGED <<reader1, fs, converter, drained, notArchiveVars>>

\* dummy::TileConverter::convert_from(&mut reader2): the metadata, then every
\* tile of the reader's bbox pyramid is fetched; an error ends the program
call_drain ==
  /\ pc = "run"
  /\ reader2 # NoReader
  /\ LET cs == PyramidCoords(reader2.parameters.bbox_pyramid)
     IN IF drained >= Len(cs)
        THEN pc' = "done" /\ drained' = drained /\ call' = [op |-> "drain", arg |-> drained, ret |-> [ok |-> TRUE]]
        ELSE LET m == reader2_get_meta(reader2, fs)
                 t == reader2_get_tile_data(reader2, fs, cs[drained + 1])
             IN IF m.ok /\ t.ok
                THEN /\ drained' = drained + 1
                     /\ pc' = pc
                     /\ call' = [op |-> "drain", arg |-> drained, ret |-> [ok |-> TRUE]]
                ELSE /\ drained' = drained
                     /\ pc' = "panicked"
                     /\ call' = [op |-> "drain", arg |-> drained, ret |-> [ok |-> FALSE]]
  /\ UNCHANGED <<reader1, fs, converter, reader2, notArchiveVars>>

(***************************************************************************)
(* MockTilesWriter (src/versatiles/src/container/mock/writer.rs)           *)
(***************************************************************************)

\* a level of a pyramid that holds no tile
EmptyBBox(z) == BBox(z, 1, 1, 0, 0)
IsEmpty(bbox) == bbox.x_max < bbox.x_min \/ bbox.y_max < bbox.y_min

\* TileBBoxPyramid::iter_levels: the non-empty levels, ascending by z
RECURSIVE IterLevelsFrom(_, _)
IterLevelsFrom(pyramid, z) ==
  IF z \notin DOMAIN pyramid THEN <<>>
  ELSE IF IsEmpty(pyramid[z]) THEN IterLevelsFrom(pyramid, z + 1)
       ELSE <<pyramid[z]>> \o IterLevelsFrom(pyramid, z + 1)
iter_levels(pyramid) == IterLevelsFrom(pyramid, 0)

\* the readers handed to the writer: every level empty or the first tiles of
\* its first row, any outcome for the metadata and for each tile
WriterLevelBBoxes(z) == {EmptyBBox(z), BBox(z, 0, 0, Min({1, Pow2(z) - 1}), 0)}
WriterPyramids ==
  {p \in [0..MaxZoom -> UNION {WriterLevelBBoxes(z) : z \in 0..MaxZoom}] :
     \A z \in 0..MaxZoom : p[z] \in WriterLevelBBoxes(z)}
WriterCoords(p) ==
  UNION {{iter_coords(p[z])[i] : i \in DOMAIN iter_coords(p[z])} : z \in DOMAIN p}
WriterTiles(p) ==
  {t \in [WriterCoords(p) -> UNION {TileOutcomes(c) : c \in WriterCoords(p)}] :
     \A c \in WriterCoords(p) : t[c] \in TileOutcomes(c)}
MetaOutcomes == {Ok(Some("test metadata")), Ok(None), Err("meta read failed")}
WriterReaders ==
  {[parameters |-> [bbox_pyramid |-> p, tile_compression |-> "Gzip", tile_format |-> "PBF"],
    meta |-> m,
    tiles |-> t] : p \in WriterPyramids, m \in MetaOutcomes, t \in UNION {WriterTiles(q) : q \in WriterPyramids}}

\* reader.get_meta() of a dyn TilesReader
dyn_get_meta(r) == r.meta

\* what write() does with the byte writer it is given
WriterEmitsMut(bytes, bbox) == Append(bytes, bbox.level)
WriterEmits(bytes, bbox) == bytes

\* write(): get_container_name(), get_name(), get_meta()?, then the pyramid
\* is cloned and iter_levels() starts
writer_get_meta ==
  /\ wpc = "start"
  /\ LET m == dyn_get_meta(reader)
     IN IF m.ok
        THEN /\ wpc' = "levels"
             /\ levels' = iter_levels(get_parameters(reader).bbox_pyramid)
             /\ call' = [op |-> "get_meta", arg |-> <<>>, ret |-> [ok |-> TRUE]]
        ELSE /\ wpc' = "returned"
             /\ levels' = levels
             /\ call' = [op |-> "write_to_writer", arg |-> <<>>, ret |-> [ok |-> FALSE]]
  /\ UNCHANGED <<requested, out, readerVars, notStreamVars>>

\* let mut stream = reader.get_bbox_tile_stream(bbox.clone()).await
writer_get_bbox_tile_stream ==
  /\ wpc = "levels"
  /\ levels # <<>>
  /\ consumer = "none"
  /\ coords' = iter_coords(Head(levels))
  /\ cur' = 0
  /\ inflight' = <<>>
  /\ mutex' = Free
  /\ yielded' = <<>>
  /\ consumer' = "idle"
  /\ levels' = Tail(levels)
  /\ requested' = Append(requested, Head(levels))
  /\ out' = WriterEmits(out, Head(levels))
  /\ call' = [op |-> "get_bbox_tile_stream", arg |-> Head(levels), ret |-> <<>>]
  /\ UNCHANGED <<wpc, reader, notStreamVars>>

\* the for loop is over: Ok(())
writer_return ==
  /\ wpc = "levels"
  /\ levels = <<>>
  /\ consumer = "none"
  /\ wpc' = "returned"
  /\ call' = [op |-> "write_to_writer", arg |-> <<>>, ret |-> [ok |-> TRUE]]
  /\ UNCHANGED <<levels, requested, out, readerVars, notStreamVars>>

(***************************************************************************)
(* Composer operations (src/versatiles/src/container/composer/operations)  *)
(***************************************************************************)

\* the most operations built in one run
MaxOps == 2

OperationNames == {"op1", "op2"}
ActionStrings == {"read", "pbf_update_properties", "pbf_mock", "pbf_update", ""}
\* a YAML scalar: a string or something else (a number, a list)
YamlStr(v) == [str |-> TRUE, v |-> v]
YamlNoStr == [str |-> FALSE]
\* the YAML hashes handed in: without "action", or with any scalar under it
Yamls ==
  {[k \in {} |-> YamlNoStr]} \cup
  {[k \in {"action"} |-> v] : v \in {YamlStr(a) : a \in ActionStrings} \cup {YamlNoStr}}

\* an anyhow error: its messages, the outermost context first
ErrChain(msgs) == [ok |-> FALSE, val |-> msgs]
WithContext(r, msg) == IF r.ok THEN r ELSE ErrChain(<<msg>> \o r.val)
RootCause(r) == r.val[Len(r.val)]
MsgWhileParsing == <<"while parsing action">>
MsgUnknown(action) == <<"operation '", action, "' is unknown">>
MsgFailedParsing(action) == <<"Failed parsing action '", action, "'">>

\* YamlWrapper::hash_get_str(key)
hash_get_str(yaml, key) ==
  IF key \notin DOMAIN yaml THEN ErrChain(<<<<"key '", key, "' not found">>>>)
  ELSE IF ~yaml[key].str THEN ErrChain(<<<<"value of '", key, "' is not a string">>>>)
       ELSE Ok(yaml[key].v)

\* match action.as_str() { .. }: the operation type built, or "unknown"
OperationForMut(action, test) ==
  CASE action = "pbf_update_properties" -> "RunnerOperation<PBFUpdatePropertiesRunner>"
    [] action = "read" -> "ReadOperation"
    [] action = "pbf_mock" -> "PBFMock"
    [] OTHER -> "unknown"
OperationFor(action, test) ==
  CASE action = "pbf_update_properties" -> "RunnerOperation<PBFUpdatePropertiesRunner>"
    [] action = "read" -> "ReadOperation"
    [] action = "pbf_mock" /\ test -> "PBFMock"
    [] OTHER -> "unknown"

\* T::new(name, yaml, lookup): it may fail, and it may take operations out of
\* the lookup or put some in
NewOutcomes(type, name, lk) ==
  {[ret |-> Ok([type |-> type, name |-> name]), lookup |-> l] : l \in SUBSET OperationNames}
  \cup {[ret |-> ErrChain(<<<<"invalid operation">>>>), lookup |-> l] : l \in {lk, lk \ {name}}}

\* pub async fn new_tile_composer_operation(name, yaml, lookup)
new_tile_composer_operation(name, yaml, lk, test) ==
  LET action == WithContext(hash_get_str(yaml, "action"), MsgWhileParsing)
  IN IF ~action.ok THEN {[ret |-> action, lookup |-> lk]}
     ELSE LET type == OperationFor(action.val, test)
          IN IF type = "unknown"
             THEN {[ret |-> WithContext(ErrChain(<<MsgUnknown(action.val)>>),
                                        MsgFailedParsing(action.val)),
                    lookup |-> lk]}
             ELSE {[ret |-> WithContext(o.ret, MsgFailedParsing(action.val)),
                    lookup |-> o.lookup] : o \in NewOutcomes(type, name, lk)}

call_new_tile_composer_operation(name, yaml) ==
  /\ Len(ops) < MaxOps
  /\ \E o \in new_tile_composer_operation(name, yaml, lookup, test_build) :
       /\ call' = [op |-> "new_tile_composer_operation",
                   arg |-> [name |-> name, yaml |-> yaml], ret |-> o.ret]
       /\ lookup' = o.lookup
       /\ ops' = IF o.ret.ok THEN Append(ops, o.ret.val) ELSE ops
  /\ UNCHANGED <<test_build, notComposerVars>>

(***************************************************************************)
(* Specifications                                                          *)
(***************************************************************************)

BlobIdle == blob = <<>> /\ len = 0 /\ cursor = 0 /\ sub = NoSub
ArchiveIdle ==
  /\ reader1 = dummy_new_dummy("PngFast", 0)
  /\ fs = [f \in TestFiles |-> NoFile]
  /\ converter = NoConverter
  /\ reader2 = NoReader
  /\ drained = 0
  /\ pc = "run"
WriterIdle ==
  /\ wpc = "idle"
  /\ levels = <<>>
  /\ requested = <<>>
  /\ out = <<>>
ComposerIdle ==
  /\ lookup = {}
  /\ ops = <<>>
  /\ test_build = FALSE
VdlIdle == node = VDLNode("node", <<>>)
ReaderIdle == reader = new_dummy([c \in LevelCoords(TestZoom) |-> Ok(Some(TileBlob(c)))]) /\ NoStream

InitBlob ==
  /\ blob \in TestBlobs
  /\ len = new(blob).len
  /\ cursor = new(blob).cursor
  /\ sub = NoSub
  /\ call = NoCall
  /\ ReaderIdle
  /\ VdlIdle
  /\ ArchiveIdle
  /\ ComposerIdle
  /\ WriterIdle

NextBlob ==
  \/ \E p \in U64 : set_position(p)
  \/ \E n \in U64 : get_sub_reader(n)
  \/ read_u8
  \/ sub_read_u8
  \/ read_varint

SpecBlob == InitBlob /\ [][NextBlob]_vars

InitReader ==
  /\ reader \in {new_dummy(t) : t \in TileSources}
  /\ NoStream
  /\ call = NoCall
  /\ BlobIdle
  /\ VdlIdle
  /\ ArchiveIdle
  /\ ComposerIdle
  /\ WriterIdle

NextReader ==
  \/ call_get_name
  \/ call_get_container_name
  \/ call_get_parameters
  \/ call_get_meta
  \/ \E c \in LevelCoords(TestZoom) : call_get_tile_data(c)
  \/ \E c \in TileCompressions : call_override_compression(c)
  \/ \E b \in TestBBoxes : call_get_bbox_tile_stream(b)
  \/ stream_next
  \/ stream_spawn
  \/ \E c \in InFlight : closure_lock(c)
  \/ \E c \in InFlight : closure_get_tile_data(c)
  \/ \E c \in InFlight : stream_yield(c)
  \/ stream_end
  \/ stream_drop

SpecReader == InitReader /\ [][NextReader]_vars

\* what the consumer's polling and the stream's futures do to a live stream
StreamProgress ==
  \/ stream_next
  \/ stream_spawn
  \/ \E c \in InFlight : closure_lock(c)
  \/ \E c \in InFlight : closure_get_tile_data(c)
  \/ \E c \in InFlight : stream_yield(c)
  \/ stream_end

\* the consumer polls until None and the runtime runs every ready future
SpecReaderFair == InitReader /\ [][NextReader]_vars /\ WF_vars(StreamProgress)

InitVdl ==
  /\ node \in {VDLNode("node", props) : props \in PropertyMaps}
  /\ call = NoCall
  /\ BlobIdle
  /\ ReaderIdle
  /\ ArchiveIdle
  /\ ComposerIdle
  /\ WriterIdle

NextVdl ==
  \/ \E f \in Fields : call_get_property_string0(f)
  \/ \E f \in Fields : call_get_property_string1(f)
  \/ \E f \in Fields : \E m \in 0..MaxEntries : call_get_property_vec(f, m)

SpecVdl == InitVdl /\ [][NextVdl]_vars

InitArchive ==
  /\ reader1 \in {dummy_new_dummy(p, z) : p \in ReaderProfiles, z \in 0..MaxZoom}
  /\ fs = [f \in TestFiles |-> NoFile]
  /\ converter = NoConverter
  /\ reader2 = NoReader
  /\ drained = 0
  /\ pc = "run"
  /\ call = NoCall
  /\ BlobIdle
  /\ ReaderIdle
  /\ VdlIdle
  /\ WriterIdle
  /\ ComposerIdle

NextArchive ==
  \/ \E f \in TestFiles : \E cfg \in TestConfigs(reader1) : call_get_converter(f, cfg)
  \/ \E f \in TestFiles : \E cfg \in TestConfigs(reader1) : call_mbtiles_new(f, cfg)
  \/ call_mbtiles_convert_from
  \/ call_convert_from
  \/ \E f \in TestFiles : call_get_reader(f)
  \/ call_drain

SpecArchive == InitArchive /\ [][NextArchive]_vars

InitWriter ==
  /\ reader \in {r \in WriterReaders :
                   DOMAIN r.tiles = WriterCoords(r.parameters.bbox_pyramid)}
  /\ NoStream
  /\ wpc = "start"
  /\ levels = <<>>
  /\ requested = <<>>
  /\ out = <<>>
  /\ call = NoCall
  /\ BlobIdle
  /\ VdlIdle
  /\ ArchiveIdle
  /\ ComposerIdle

NextWriter ==
  \/ writer_get_meta
  \/ writer_get_bbox_tile_stream
  \/ writer_return
  \/ stream_next
  \/ stream_spawn
  \/ \E c \in InFlight : closure_lock(c)
  \/ \E c \in InFlight : closure_get_tile_data(c)
  \/ \E c \in InFlight : stream_yield(c)
  \/ stream_end
  \/ stream_drop

\* the runtime polls the write() future, and the stream's futures, to completion
SpecWriter == InitWriter /\ [][NextWriter]_vars /\ WF_vars(NextWriter)

InitComposer ==
  /\ lookup \in SUBSET OperationNames
  /\ ops = <<>>
  /\ test_build \in BOOLEAN
  /\ call = NoCall
  /\ BlobIdle
  /\ ReaderIdle
  /\ VdlIdle
  /\ ArchiveIdle
  /\ WriterIdle

NextComposer ==
  \E name \in OperationNames : \E yaml \in Yamls : call_new_tile_composer_operation(name, yaml)

SpecComposer == InitComposer /\ [][NextComposer]_vars

(***************************************************************************)
(* Claims about ValueReaderBlob                                            *)
(***************************************************************************)

\* C6: set_position(p) returns an error if and only if p >= len (so also for
\* p = len and for every p on an empty blob); when p < len it succeeds,
\* position() is then p and the next read returns the byte at index p.
C6_SetPositionBounds ==
  [][call'.op = "set_position" =>
       LET p == call'.arg
       IN /\ (~call'.ret.ok) <=> (p >= len)
          /\ p < len => /\ call'.ret.ok
                        /\ cursor' = p
                        /\ ReadByte(blob', cursor') = Ok(blob[p + 1])]_vars

\* a successful set_position to a position other than the start
C6_Witness ==
  /\ call.op = "set_position"
  /\ call.ret.ok
  /\ call.arg = 2
  /\ cursor = 2
  /\ len = 3

\* C7: get_sub_reader(n) at position s with s + n <= len returns a bounded
\* cursor of its own (len n, position 0, the bytes [s, s+n) of the parent,
\* read without moving the parent) and moves the parent to s + n; with
\* s + n > len it returns the error 'out of bounds' and no sub-reader.
C7_SubReader ==
  [][/\ call'.op = "get_sub_reader" =>
          LET s == cursor
              n == call'.arg
          IN IF s + n <= len
             THEN /\ call'.ret.ok
                  /\ sub'.live
                  /\ sub'.len = n
                  /\ sub'.pos = 0
                  /\ sub'.data = [i \in 1..n |-> blob[s + i]]
                  /\ cursor' = s + n
             ELSE /\ ~call'.ret.ok
                  /\ call'.ret.val = "out of bounds"
                  /\ ~sub'.live
     /\ call'.op = "sub_read_u8" =>
          /\ cursor' = cursor
          /\ call'.ret.ok <=> sub.pos < sub.len
          /\ call'.ret.ok => call'.ret.val = sub.data[sub.pos + 1]]_vars

\* a sub-reader of two bytes taken from the middle of a blob
C7_Witness ==
  /\ call.op = "get_sub_reader"
  /\ call.ret.ok
  /\ call.ret.val = 1
  /\ sub.live
  /\ sub.len = 2
  /\ cursor = 3

\* the number of consecutive continuation bytes (high bit set) from index s
RECURSIVE ContRun(_, _)
ContRun(data, s) ==
  IF s < Len(data) /\ data[s + 1] >= 128 THEN 1 + ContRun(data, s + 1) ELSE 0

\* C8: read_varint decodes unsigned LEB128 ([0xAC, 0x02] is 300) and fails
\* on any input with 10 or more consecutive continuation bytes.
C8_Varint ==
  [][call'.op = "read_varint" =>
       LET s == cursor
           k == ContRun(blob, s)
       IN /\ k >= 10 => ~call'.ret.ok
          /\ (k < 10 /\ s + k < Len(blob)) =>
               /\ call'.ret.ok
               /\ call'.ret.val = [i \in 1..(k + 1) |-> Group(blob[s + i], 7 * (i - 1))]
               /\ cursor' = s + k + 1
          /\ (s = 0 /\ blob = <<172, 2>>) =>
               /\ call'.ret.ok
               /\ VarintValue(call'.ret.val) = 300]_vars

\* ten continuation bytes were read and the decoder gave up
C8_Witness ==
  /\ call.op = "read_varint"
  /\ ~call.ret.ok
  /\ call.ret.val = "Varint too long"
  /\ call.arg = 0
  /\ cursor = 10

(***************************************************************************)
(* Claims about TilesReaderTrait and the default bbox tile stream          *)
(***************************************************************************)

\* the bbox the live stream was asked for, and what the reader holds in it
StreamBBox == call.arg
InBBox(c, b) ==
  /\ c.z = b.level
  /\ b.x_min <= c.x /\ c.x <= b.x_max
  /\ b.y_min <= c.y /\ c.y <= b.y_max
BBoxCoords == {c \in LevelCoords(TestZoom) : InBBox(c, StreamBBox)}
Present(c) == reader.tiles[c].ok /\ reader.tiles[c].val.some
Failing(c) == ~reader.tiles[c].ok
PresentItems == {<<c, reader.tiles[c].val.v>> : c \in {d \in BBoxCoords : Present(d)}}
YieldedItems == {yielded[i] : i \in 1..Len(yielded)}
StreamStep ==
  \/ stream_next
  \/ stream_spawn
  \/ \E c \in InFlight : closure_lock(c) \/ closure_get_tile_data(c) \/ stream_yield(c)
  \/ stream_end

\* C2: the default get_bbox_tile_stream yields exactly one (coord, blob) item
\* for every coord of the bbox whose get_tile_data is Ok(Some(blob)), the item
\* carrying that coord, and nothing for Ok(None); with every tile present the
\* item count is the number of coords (4 for the 2x2 bbox); the stream ends
\* after at most that many items.
C2_StreamYieldsPresentTiles ==
  consumer # "none" =>
    /\ YieldedItems \subseteq PresentItems
    /\ \A i, j \in 1..Len(yielded) : yielded[i] = yielded[j] => i = j
    /\ Len(yielded) <= Cardinality(BBoxCoords)
    /\ consumer = "ended" =>
         /\ YieldedItems = PresentItems
         /\ (\A c \in BBoxCoords : Present(c)) => Len(yielded) = Cardinality(BBoxCoords)
         /\ (StreamBBox = BBox(1, 0, 0, 1, 1) /\ \A c \in BBoxCoords : Present(c))
              => Len(yielded) = 4

\* the 2x2 bbox of a reader holding every tile was drained: four items
C2_Witness ==
  /\ consumer = "ended"
  /\ StreamBBox = BBox(1, 0, 0, 1, 1)
  /\ Len(yielded) = 4

\* C3: when get_tile_data returns Err for a coord only that tile is dropped:
\* the stream neither aborts nor stalls, no item is made of the failed coord,
\* and every coord of the bbox with Ok(Some) is still yielded.
C3_ErrorDropsOnlyThatTile ==
  consumer # "none" =>
    /\ consumer # "aborted"
    /\ \A i \in 1..Len(yielded) : ~Failing(yielded[i][1])
    /\ consumer \in {"idle", "polling"} => ENABLED StreamStep
    /\ consumer = "ended" =>
         \A c \in BBoxCoords : Present(c) => <<c, reader.tiles[c].val.v>> \in YieldedItems

\* a stream whose first coord failed ended with a later tile yielded
C3_Witness ==
  /\ consumer = "ended"
  /\ Len(coords) >= 2
  /\ Failing(coords[1])
  /\ \E i \in 2..Len(coords) : Present(coords[i]) /\ coords[i] \in {it[1] : it \in YieldedItems}

\* C4: never more than P closure calls are in flight, in any interleaving,
\* and a call is only started while the consumer is inside next(): calls
\* started and not yet consumed never exceed P.
C4_BoundedInFlight ==
  /\ [](Cardinality(Running) <= P /\ Cardinality(InFlight) <= P)
  /\ [][~(InFlight' \subseteq InFlight) => consumer = "polling"]_vars

\* P calls are in flight while the stream still has coords to hand out
C4_Witness ==
  /\ Cardinality(Running) = P
  /\ cur < Len(coords)
  /\ consumer = "polling"

\* C5: override_compression(c) only retags the reader: tile_compression
\* becomes c while bbox_pyramid, tile_format, get_meta and the bytes of every
\* get_tile_data stay as they were; no other reader operation changes the
\* parameters.
C5_OverrideOnlyRetags ==
  [][/\ call'.op = "override_compression" =>
          /\ get_parameters(reader').tile_compression = call'.arg
          /\ get_parameters(reader').bbox_pyramid = get_parameters(reader).bbox_pyramid
          /\ get_parameters(reader').tile_format = get_parameters(reader).tile_format
          /\ get_meta(reader') = get_meta(reader)
          /\ \A c \in LevelCoords(TestZoom) :
               get_tile_data(reader', c) = get_tile_data(reader, c)
     /\ call'.op # "override_compression" =>
          get_parameters(reader') = get_parameters(reader)]_vars

\* the Gzip reader was retagged to Brotli
C5_Witness ==
  /\ call.op = "override_compression"
  /\ call.arg = "Brotli"
  /\ get_parameters(reader).tile_compression = "Brotli"
  /\ get_parameters(reader).tile_format = "PBF"

(***************************************************************************)
(* Claims about the container library                                      *)
(***************************************************************************)

\* the converter has written its container file
Written == converter # NoConverter /\ fs[converter.path].exists
\* the converter hands the source's bytes on untouched
PassThrough ==
  /\ converter.config.tile_format = reader1.parameters.tile_format
  /\ converter.config.tile_compression = reader1.parameters.tile_compression
  /\ ~converter.config.force_recompress
SameBlob(a, b) ==
  /\ a.ok = b.ok
  /\ a.ok => /\ a.val.some = b.val.some
             /\ a.val.some => a.val.v = b.val.v
SourceCoords == PyramidCoords(reader1.parameters.bbox_pyramid)
SameTiles ==
  \A i \in 1..Len(SourceCoords) :
    SameBlob(reader2_get_tile_data(reader2, fs, SourceCoords[i]),
             dummy_get_tile_data(reader1, SourceCoords[i]))
SameMeta == SameBlob(reader2_get_meta(reader2, fs), dummy_get_meta(reader1))
Drains ==
  /\ pc # "panicked"
  /\ pc = "done" => drained = Len(SourceCoords)

MsgNotSupported == "conversion to mbtiles is not supported"

\* C9: mbtiles::TileConverter::new and convert_from never complete: each ends
\* the program with "conversion to mbtiles is not supported", yields no
\* converter and writes no file; get_converter for a ".mbtiles" filename ends
\* the program too and yields no converter.
C9_MbtilesWriterIsAStub ==
  [][/\ call'.op \in {"mbtiles_new", "mbtiles_convert_from"} =>
          /\ ~call'.ret.ok
          /\ call'.ret.val = MsgNotSupported
          /\ pc' = "panicked"
          /\ converter' = converter
          /\ fs' = fs
     /\ (call'.op = "get_converter" /\ Extension(call'.arg) = "mbtiles") =>
          /\ ~call'.ret.ok
          /\ pc' = "panicked"
          /\ converter' = NoConverter
          /\ fs' = fs]_vars

\* TileConverter::new was called for an mbtiles file and nothing was written
C9_Witness ==
  /\ call.op = "mbtiles_new"
  /\ Extension(call.arg) = "mbtiles"
  /\ ~call.ret.ok
  /\ pc = "panicked"
  /\ converter = NoConverter
  /\ \A f \in TestFiles : ~fs[f].exists


(***************************************************************************)
(* Claims about VDLNode                                                    *)
(***************************************************************************)

\* C10: get_property_string1(field) returns the value exactly when the
\* property map holds field with exactly one entry; an absent field fails
\* with "field '<field>' does not exist", a field with zero or several
\* entries with "field '<field>' must have exactly one entry"; the node is
\* not modified.
C10_RequiredProperty ==
  [][call'.op = "get_property_string1" =>
       LET field == call'.arg
           r == call'.ret
       IN /\ node' = node
          /\ IF field \notin DOMAIN node.properties
             THEN ~r.ok /\ r.val = <<"field '", field, "' does not exist">>
             ELSE IF Len(node.properties[field]) = 1
                  THEN r.ok /\ r.val = node.properties[field][1]
                  ELSE ~r.ok /\ r.val = <<"field '", field, "' must have exactly one entry">>]_vars

\* id_field was asked of a node that has only layer
C10_Witness ==
  /\ call.op = "get_property_string1"
  /\ call.arg = "id_field"
  /\ DOMAIN node.properties = {"layer"}
  /\ ~call.ret.ok
  /\ call.ret.val = <<"field '", "id_field", "' does not exist">>

\* C11: get_property_vec(field, 0) on a node whose property map does not hold
\* field succeeds with an empty list; for a field that is present it returns
\* the stored list whenever the list has at least min_size entries.
C11_AbsentFieldIsEmptyList ==
  [][call'.op = "get_property_vec" =>
       LET field == call'.arg.field
           min_size == call'.arg.min_size
           r == call'.ret
       IN IF field \notin DOMAIN node.properties
          THEN min_size = 0 => (r.ok /\ Len(r.val) = 0)
          ELSE Len(node.properties[field]) >= min_size =>
                 (r.ok /\ r.val = node.properties[field])]_vars

\* key3 was asked, with min_size 0, of a node that has no key3: the call
\* failed with "field '<field>' not found"
C11_Witness ==
  /\ call.op = "get_property_vec"
  /\ call.arg.field \notin DOMAIN node.properties
  /\ call.arg.min_size = 0
  /\ ~call.ret.ok
  /\ call.ret.val = MsgNotFound(call.arg.field)

(***************************************************************************)
(* Claims about MockTilesWriter                                            *)
(***************************************************************************)

WriterLevels == iter_levels(get_parameters(reader).bbox_pyramid)
IsPrefix(a, b) == Len(a) <= Len(b) /\ \A i \in 1..Len(a) : a[i] = b[i]
Returned == wpc = "returned"

\* C12: write_to_writer reads get_meta first and returns its error before any
\* tile stream is requested; otherwise it requests one tile stream per
\* non-empty level of the reader's bbox pyramid, ascending by zoom, drops a
\* stream only once it is exhausted and requests the next only then, never
\* writes to the byte writer, and returns Ok after the last stream.
C12_MockWriterDrains ==
  /\ [](out = <<>>)
  /\ [](IsPrefix(requested, WriterLevels))
  /\ [](requested # <<>> => dyn_get_meta(reader).ok)
  /\ []((Returned /\ ~dyn_get_meta(reader).ok) => (requested = <<>> /\ ~call.ret.ok))
  /\ []((Returned /\ dyn_get_meta(reader).ok) =>
          (call.ret.ok /\ requested = WriterLevels /\ consumer = "none"))
  /\ [][/\ requested' # requested => consumer = "none"
        /\ (consumer # "none" /\ consumer' = "none") =>
             (consumer = "ended" /\ cur = Len(coords) /\ InFlight = {})]_vars
  /\ <>Returned

\* a reader with two non-empty levels was drained and write returned Ok
C12_Witness ==
  /\ Returned
  /\ call.op = "write_to_writer"
  /\ call.ret.ok
  /\ Len(requested) >= 2
  /\ requested = WriterLevels
  /\ out = <<>>

(***************************************************************************)
(* Claims about the composer operations                                    *)
(***************************************************************************)

\* the actions an operation is built for in this build
KnownActions == {"read", "pbf_update_properties"} \cup (IF test_build THEN {"pbf_mock"} ELSE {})
HasAction(yaml) == "action" \in DOMAIN yaml /\ yaml["action"].str

\* C13: new_tile_composer_operation builds an operation only for the actions
\* "read" and "pbf_update_properties" (and "pbf_mock" in a test build); when
\* the "action" key is missing or holds any other string it returns an error
\* (with root cause "operation '<action>' is unknown" for an unknown string),
\* builds no operation and leaves the lookup as it was.
C13_UnknownActionIsAnError ==
  [][call'.op = "new_tile_composer_operation" =>
       LET yaml == call'.arg.yaml
           r == call'.ret
       IN /\ (r.ok \/ ops' # ops) =>
               (HasAction(yaml) /\ yaml["action"].v \in KnownActions)
          /\ ~("action" \in DOMAIN yaml) =>
               (~r.ok /\ ops' = ops /\ lookup' = lookup)
          /\ (HasAction(yaml) /\ yaml["action"].v \notin KnownActions) =>
               /\ ~r.ok
               /\ RootCause(r) = MsgUnknown(yaml["action"].v)
               /\ ops' = ops
               /\ lookup' = lookup]_vars

\* "pbf_mock" was asked for outside a test build, with operations in the lookup
C13_Witness ==
  /\ call.op = "new_tile_composer_operation"
  /\ HasAction(call.arg.yaml)
  /\ call.arg.yaml["action"].v = "pbf_mock"
  /\ ~test_build
  /\ ~call.ret.ok
  /\ RootCause(call.ret) = MsgUnknown("pbf_mock")
  /\ lookup # {}
  /\ ops = <<>>

(***************************************************************************)
(* The cursor of ValueReaderBlob                                           *)
(***************************************************************************)

\* C14: after any sequence of set_position and get_sub_reader calls the
\* cursor's position never exceeds len, and a call that returns an error
\* leaves the position as it was before the call.
C14_CursorInvariant ==
  /\ [](cursor <= len)
  /\ [][(call'.op \in {"set_position", "get_sub_reader"} /\ ~call'.ret.ok) =>
          cursor' = cursor]_vars

\* get_sub_reader failed with "out of bounds" and left the cursor beyond len
C14_Witness ==
  /\ call.op = "get_sub_reader"
  /\ ~call.ret.ok
  /\ call.ret.val = "out of bounds"
  /\ cursor = call.arg
  /\ cursor > len

(***************************************************************************)
(* The mutex of the default get_bbox_tile_stream                           *)
(***************************************************************************)

\* the closure calls whose get_tile_data is in progress
Calling == {c \in InFlight : inflight[c].pc = "call"}
WaitsForLock(c) == c \in InFlight /\ inflight[c].pc = "lock"

\* C15: in the default get_bbox_tile_stream a get_tile_data call is in
\* progress only while its closure call holds the mutex, from the moment the
\* lock resolves until the result is there, so at most one get_tile_data call
\* runs at a time in every interleaving; no closure call waits forever for
\* the lock, and the stream goes on to deliver every present tile.
C15_MutexSerialisesTileReads ==
  /\ [](Cardinality(Calling) <= 1 /\ mutex = Calling)
  /\ [][\A c \in Calling :
          (c \in DOMAIN inflight' /\ inflight'[c].pc = "done") => mutex = {c}]_vars
  /\ \A c \in LevelCoords(TestZoom) : WaitsForLock(c) ~> ~WaitsForLock(c)
  /\ (consumer \in {"idle", "polling"}) ~> (consumer = "ended" /\ YieldedItems = PresentItems)

\* one closure call holds the mutex inside get_tile_data while another waits
\* for the lock
C15_Witness ==
  /\ Cardinality(Calling) = 1
  /\ mutex = Calling
  /\ \E c \in InFlight : WaitsForLock(c)

====
